---- MODULE Spec2Model ----
(***************************************************************************)
(* The name-service pallet (frame/name-service/src/lib.rs) as a state      *)
(* machine: one action per dispatchable, the four storage maps, the        *)
(* currency the pallet reserves and withdraws from, and the block number.  *)
(*                                                                         *)
(* A dispatchable runs to completion on the storage it is given; the file  *)
(* wraps none of them in a storage transaction, so a write made before a   *)
(* later `ensure!` or `?` returns an error is kept, as the body is written.*)
(* The events a call deposits go to frame_system and are not modelled.     *)
(***************************************************************************)
EXTENDS Integers, Sequences, FiniteSets, TLC

(***************************************************************************)
(* Bounds of the model.                                                    *)
(***************************************************************************)
\* The block number stops advancing here.
MaxNow == 1
\* The largest `periods: u32` argument a call is given.
MaxPeriods == 1
\* BlockNumber::max_value() of the modelled block number type.
MaxBlock == 2
\* Balance::max_value() of the modelled balance type.
MaxBalance == 10
\* The free balance every account holds at genesis.
InitialBalance == 3
MaxNameLen == 6
MaxFeePeriods == 15

(***************************************************************************)
(* Runtime configuration (trait Config).                                   *)
(***************************************************************************)
CommitmentDeposit == 1
TierThreeLetters == 2
TierFourLetters == 1
TierDefault == 0
BlocksPerRegistrationPeriod == 1
MinimumRegistrationPeriods == 0
FeePerRegistrationPeriod == 1

Accounts == {"alice", "bob"}
ControllerAccounts == {"alice"}

\* Origins a call can be dispatched with: a signed account, or Root.
Root == [kind |-> "Root", who |-> "none"]
Signed(a) == [kind |-> "Signed", who |-> a]
Origins == {Signed(a) : a \in Accounts} \cup {Root}

\* Raw names (byte strings) and labels the callers use, and the secrets.
NameAbc == <<97, 98, 99>>
NameAbcde == <<97, 98, 99, 100, 101>>
Names == {NameAbc, NameAbcde}
Labels == {<<119>>}
Secrets == {0, 1}

(***************************************************************************)
(* Hashing.  blake2_256 is modelled as an ideal (injective) digest: the    *)
(* digest of a byte string is that string behind a marker that is no byte. *)
(* Digests are byte strings again, so they can be concatenated and hashed. *)
(***************************************************************************)
HashTag == 256
blake2_256(bytes) == <<HashTag>> \o bytes

\* SCALE encoding of the tuple (Vec<u8>, u64): length prefix, bytes, secret.
encode(name, secret) == <<Len(name)>> \o name \o <<secret>>

commitment_hash_of(name, secret) == blake2_256(encode(name, secret))
name_hash_of(name) == blake2_256(name)

generate_sub_name_hash(name_hash, label_hash) ==
    blake2_256(name_hash \o label_hash)

CommitmentHashes == {commitment_hash_of(n, s) : n \in Names, s \in Secrets}
NameHashes == {name_hash_of(n) : n \in Names}
LabelHashes == {blake2_256(l) : l \in Labels}

(***************************************************************************)
(* Storage maps: a function whose domain is the set of keys present.       *)
(***************************************************************************)
EmptyMap == [k \in {} |-> 0]
Insert(m, k, v) == [x \in (DOMAIN m) \cup {k} |-> IF x = k THEN v ELSE m[x]]
Remove(m, k) == [x \in (DOMAIN m) \ {k} |-> m[x]]

(***************************************************************************)
(* Saturating arithmetic of the block number and balance types.            *)
(***************************************************************************)
Min(a, b) == IF a < b THEN a ELSE b
saturating_add(a, b, max) == Min(a + b, max)
saturating_mul(a, b, max) == Min(a * b, max)

VARIABLES
    now,                    \* frame_system block number
    Commitments,            \* CommitmentHash -> Commitment
    Registrations,          \* NameHash -> Registration
    SubNameRegistrations,   \* <<NameHash, LabelHash>> -> SubNameRegistration
    Resolvers,              \* NameHash -> AccountId
    free,                   \* Currency: free balance of each account
    reserved,               \* Currency: reserved balance of each account
    feePot,                 \* what RegistrationFeeHandler has been handed
    controllersOnly,        \* T::ControllersOnly of this runtime
    op,                     \* the dispatchable that ran last
    result,                 \* its DispatchResult
    quote                   \* the last answer of registration_fee, if any

stores == <<Commitments, Registrations, SubNameRegistrations, Resolvers>>
ledger == <<free, reserved, feePot>>
vars == <<now, Commitments, Registrations, SubNameRegistrations, Resolvers,
          free, reserved, feePot, controllersOnly, op, result, quote>>

(***************************************************************************)
(* The currency, at the interface the pallet uses.                         *)
(***************************************************************************)
\* Currency::reserve succeeds iff the free balance covers the amount.
can_reserve(who, amount) == free[who] >= amount
\* Currency::withdraw succeeds iff the free balance covers the amount.
can_withdraw(who, amount) == free[who] >= amount

(***************************************************************************)
(* Pallet internal functions.                                              *)
(***************************************************************************)
length_fee(periods) ==
    saturating_mul(FeePerRegistrationPeriod, periods, MaxBalance)

\* registration_fee with one flat fee for every name of three bytes or more.
registration_fee_flat(name, periods) ==
    LET name_length == Len(name)
        fee_reg == IF name_length < 3 THEN MaxBalance ELSE TierDefault
    IN  saturating_add(fee_reg, length_fee(periods), MaxBalance)

registration_fee(name, periods) ==
    LET name_length == Len(name)
        fee_reg == IF name_length < 3 THEN MaxBalance
                   ELSE IF name_length = 3 THEN TierThreeLetters
                   ELSE IF name_length = 4 THEN TierFourLetters
                   ELSE TierDefault
    IN  saturating_add(fee_reg, length_fee(periods), MaxBalance)

length(periods) ==
    saturating_mul(periods, BlocksPerRegistrationPeriod, MaxBlock)

\* is_available with the boundary block excluded: a lease that ends at this
\* very block still counts as taken.
is_available_strict(name_hash, block_number) ==
    IF name_hash \in DOMAIN Registrations
    THEN Registrations[name_hash].expiry < block_number
    ELSE TRUE

\* A registry in which every name is always up for registration.
is_available_always(name_hash, block_number) == TRUE

is_available(name_hash, block_number) ==
    IF name_hash \in DOMAIN Registrations
    THEN Registrations[name_hash].expiry <= block_number
    ELSE TRUE

\* do_register counting the lease from block 0 instead of the current block.
do_register_from_zero(name_hash, who, deposit, periods) ==
    Insert(Registrations, name_hash,
        [owner |-> who, registrant |-> who,
         expiry |-> length(periods),
         deposit |-> deposit])

\* do_register: the Registrations map after the insert.
do_register(name_hash, who, deposit, periods) ==
    Insert(Registrations, name_hash,
        [owner |-> who, registrant |-> who,
         expiry |-> saturating_add(now, length(periods), MaxBlock),
         deposit |-> deposit])

\* The keys of the sub names stored under a parent (iter_prefix).
sub_keys(name_hash) == {k \in DOMAIN SubNameRegistrations : k[1] = name_hash}

Init ==
    /\ now = 0
    /\ Commitments = EmptyMap
    /\ Registrations = EmptyMap
    /\ SubNameRegistrations = EmptyMap
    /\ Resolvers = EmptyMap
    /\ free = [a \in Accounts |-> InitialBalance]
    /\ reserved = [a \in Accounts |-> 0]
    /\ feePot = 0
    /\ controllersOnly \in BOOLEAN
    /\ op = "genesis"
    /\ result = "Ok"
    /\ quote = <<>>

\* The dispatchable returned `err` before writing anything.
Fail(err) ==
    /\ result' = err
    /\ UNCHANGED <<stores, ledger>>

(***************************************************************************)
(* commit                                                                  *)
(***************************************************************************)
\* commit without the contains_key check on Commitments.
commit_result_unchecked(origin, commitment_hash) ==
    IF origin.kind # "Signed" THEN "BadOrigin"
    ELSE IF controllersOnly /\ origin.who \notin ControllerAccounts
        THEN "NotControllerAccount"
    ELSE IF ~can_reserve(origin.who, CommitmentDeposit) THEN "InsufficientBalance"
    ELSE "Ok"

\* commit open to every signed account, whatever ControllersOnly says.
commit_result_ungated(origin, commitment_hash) ==
    IF origin.kind # "Signed" THEN "BadOrigin"
    ELSE IF commitment_hash \in DOMAIN Commitments THEN "AlreadyCommitted"
    ELSE IF ~can_reserve(origin.who, CommitmentDeposit) THEN "InsufficientBalance"
    ELSE "Ok"

\* The error commit returns, or "Ok".
commit_result(origin, commitment_hash) ==
    IF origin.kind # "Signed" THEN "BadOrigin"
    ELSE IF controllersOnly /\ origin.who \notin ControllerAccounts
        THEN "NotControllerAccount"
    ELSE IF commitment_hash \in DOMAIN Commitments THEN "AlreadyCommitted"
    ELSE IF ~can_reserve(origin.who, CommitmentDeposit) THEN "InsufficientBalance"
    ELSE "Ok"

commit(origin, who, commitment_hash) ==
    /\ op' = "commit"
    /\ UNCHANGED <<now, controllersOnly, quote>>
    /\ LET res == commit_result(origin, commitment_hash)
           sender == origin.who
       IN  IF res # "Ok" THEN Fail(res)
           ELSE /\ free' = [free EXCEPT ![sender] = @ - CommitmentDeposit]
                /\ reserved' = [reserved EXCEPT ![sender] = @ + CommitmentDeposit]
                /\ Commitments' = Insert(Commitments, commitment_hash,
                        [who |-> who, when |-> now, deposit |-> CommitmentDeposit])
                /\ result' = "Ok"
                /\ UNCHANGED <<Registrations, SubNameRegistrations, Resolvers, feePot>>

(***************************************************************************)
(* reveal                                                                  *)
(***************************************************************************)
\* reveal leaving the commitment it found in place.
reveal_remove_nothing(commitment_hash) == Commitments

\* Commitments after reveal has removed the commitment it found.
reveal_remove(commitment_hash) == Remove(Commitments, commitment_hash)

\* reveal without the AlreadyRegistered check of its else branch.
reveal_result_silent(origin, name, secret, periods) ==
    IF origin.kind # "Signed" THEN "BadOrigin"
    ELSE IF commitment_hash_of(name, secret) \notin DOMAIN Commitments
        THEN "CommitmentNotFound"
    ELSE IF ~(periods > MinimumRegistrationPeriods) THEN "RegistrationPeriodTooShort"
    ELSE IF is_available(name_hash_of(name), now)
        THEN IF can_withdraw(origin.who, registration_fee(name, periods))
             THEN "Ok" ELSE "InsufficientBalance"
    ELSE "Ok"

\* The DispatchResult of reveal.
reveal_result(origin, name, secret, periods) ==
    IF origin.kind # "Signed" THEN "BadOrigin"
    ELSE IF commitment_hash_of(name, secret) \notin DOMAIN Commitments
        THEN "CommitmentNotFound"
    ELSE IF ~(periods > MinimumRegistrationPeriods) THEN "RegistrationPeriodTooShort"
    ELSE IF is_available(name_hash_of(name), now)
        THEN IF can_withdraw(origin.who, registration_fee(name, periods))
             THEN "Ok" ELSE "InsufficientBalance"
    ELSE IF name_hash_of(name) \in DOMAIN Registrations THEN "AlreadyRegistered"
    ELSE "Ok"

\* reveal taking the deposit of the commitment it consumes out of the
\* reserved balance of the commitment's account.
reveal_slashing(origin, name, secret, periods) ==
    /\ op' = "reveal"
    /\ UNCHANGED <<now, controllersOnly, quote>>
    /\ LET res == reveal_result(origin, name, secret, periods)
           sender == origin.who
           commitment_hash == commitment_hash_of(name, secret)
           name_hash == name_hash_of(name)
           fee == registration_fee(name, periods)
       IN  IF res \in {"BadOrigin", "CommitmentNotFound"} THEN Fail(res)
           ELSE /\ result' = res
                /\ Commitments' = reveal_remove(commitment_hash)
                /\ reserved' =
                      [reserved EXCEPT ![Commitments[commitment_hash].who] =
                          IF @ >= CommitmentDeposit THEN @ - CommitmentDeposit ELSE 0]
                /\ UNCHANGED <<SubNameRegistrations, Resolvers>>
                /\ IF res = "Ok" /\ is_available(name_hash, now)
                   THEN /\ free' = [free EXCEPT ![sender] = @ - fee]
                        /\ feePot' = feePot + fee
                        /\ Registrations' =
                              do_register(name_hash, Commitments[commitment_hash].who,
                                          0, periods)
                   ELSE UNCHANGED <<free, feePot, Registrations>>

reveal(origin, name, secret, periods) ==
    /\ op' = "reveal"
    /\ UNCHANGED <<now, controllersOnly, quote>>
    /\ LET res == reveal_result(origin, name, secret, periods)
           sender == origin.who
           commitment_hash == commitment_hash_of(name, secret)
           name_hash == name_hash_of(name)
           fee == registration_fee(name, periods)
       IN  IF res \in {"BadOrigin", "CommitmentNotFound"} THEN Fail(res)
           ELSE /\ result' = res
                /\ Commitments' = reveal_remove(commitment_hash)
                /\ UNCHANGED <<SubNameRegistrations, Resolvers, reserved>>
                /\ IF res = "Ok" /\ is_available(name_hash, now)
                   THEN /\ free' = [free EXCEPT ![sender] = @ - fee]
                        /\ feePot' = feePot + fee
                        /\ Registrations' =
                              do_register(name_hash, Commitments[commitment_hash].who,
                                          0, periods)
                   ELSE UNCHANGED <<free, feePot, Registrations>>

(***************************************************************************)
(* transfer                                                                *)
(***************************************************************************)
\* transfer checking the caller against the registrant, not the owner.
transfer_result_registrant(origin, name_hash) ==
    IF origin.kind # "Signed" THEN "BadOrigin"
    ELSE IF name_hash \notin DOMAIN Registrations THEN "RegistrationNotFound"
    ELSE IF Registrations[name_hash].registrant # origin.who THEN "NotRegistrationOwner"
    ELSE IF ~(Registrations[name_hash].expiry > now) THEN "RegistrationExpired"
    ELSE "Ok"

transfer_result(origin, name_hash) ==
    IF origin.kind # "Signed" THEN "BadOrigin"
    ELSE IF name_hash \notin DOMAIN Registrations THEN "RegistrationNotFound"
    ELSE IF Registrations[name_hash].owner # origin.who THEN "NotRegistrationOwner"
    ELSE IF ~(Registrations[name_hash].expiry > now) THEN "RegistrationExpired"
    ELSE "Ok"

transfer(origin, to, name_hash) ==
    /\ op' = "transfer"
    /\ UNCHANGED <<now, controllersOnly, quote>>
    /\ LET res == transfer_result(origin, name_hash)
       IN  IF res # "Ok" THEN Fail(res)
           ELSE /\ Registrations' = [Registrations EXCEPT ![name_hash].owner = to]
                /\ result' = "Ok"
                /\ UNCHANGED <<Commitments, SubNameRegistrations, Resolvers, ledger>>

(***************************************************************************)
(* renew                                                                   *)
(***************************************************************************)
\* renew open to the owner of the Registration only.
renew_result_owner_only(origin, name_hash, periods) ==
    IF origin.kind # "Signed" THEN "BadOrigin"
    ELSE IF name_hash \notin DOMAIN Registrations THEN "RegistrationNotFound"
    ELSE IF Registrations[name_hash].owner # origin.who THEN "NotRegistrationOwner"
    ELSE IF ~can_withdraw(origin.who, length_fee(periods)) THEN "InsufficientBalance"
    ELSE "Ok"

renew_result(origin, name_hash, periods) ==
    IF origin.kind # "Signed" THEN "BadOrigin"
    ELSE IF name_hash \notin DOMAIN Registrations THEN "RegistrationNotFound"
    ELSE IF ~can_withdraw(origin.who, length_fee(periods)) THEN "InsufficientBalance"
    ELSE "Ok"

\* renew always counting the new lease from the current block.
renew_expiry_from_now(expiry, block_number, periods) ==
    saturating_add(block_number, length(periods), MaxBlock)

\* expiry_new of renew.
renew_expiry(expiry, block_number, periods) ==
    IF expiry > block_number
    THEN saturating_add(expiry, length(periods), MaxBlock)
    ELSE saturating_add(block_number, length(periods), MaxBlock)

renew(origin, name_hash, periods) ==
    /\ op' = "renew"
    /\ UNCHANGED <<now, controllersOnly, quote>>
    /\ LET res == renew_result(origin, name_hash, periods)
           fee == length_fee(periods)
           expiry_new == renew_expiry(Registrations[name_hash].expiry, now, periods)
       IN  IF res # "Ok" THEN Fail(res)
           ELSE /\ free' = [free EXCEPT ![origin.who] = @ - fee]
                /\ feePot' = feePot + fee
                /\ Registrations' =
                      [Registrations EXCEPT ![name_hash].expiry = expiry_new]
                /\ result' = "Ok"
                /\ UNCHANGED <<Commitments, SubNameRegistrations, Resolvers, reserved>>

(***************************************************************************)
(* set_address                                                             *)
(***************************************************************************)
\* set_address still open at the very block the lease ends.
set_address_result_inclusive(origin, name_hash) ==
    IF origin.kind # "Signed" THEN "BadOrigin"
    ELSE IF name_hash \notin DOMAIN Registrations THEN "RegistrationNotFound"
    ELSE IF Registrations[name_hash].owner # origin.who THEN "NotRegistrationOwner"
    ELSE IF ~(Registrations[name_hash].expiry >= now) THEN "RegistrationExpired"
    ELSE "Ok"

set_address_result(origin, name_hash) ==
    IF origin.kind # "Signed" THEN "BadOrigin"
    ELSE IF name_hash \notin DOMAIN Registrations THEN "RegistrationNotFound"
    ELSE IF Registrations[name_hash].owner # origin.who THEN "NotRegistrationOwner"
    ELSE IF ~(Registrations[name_hash].expiry > now) THEN "RegistrationExpired"
    ELSE "Ok"

do_set_address(name_hash, address) == Insert(Resolvers, name_hash, address)

set_address(origin, name_hash, address) ==
    /\ op' = "set_address"
    /\ UNCHANGED <<now, controllersOnly, quote>>
    /\ LET res == set_address_result(origin, name_hash)
       IN  IF res # "Ok" THEN Fail(res)
           ELSE /\ Resolvers' = do_set_address(name_hash, address)
                /\ result' = "Ok"
                /\ UNCHANGED <<Commitments, Registrations, SubNameRegistrations,
                               ledger>>

(***************************************************************************)
(* deregister                                                              *)
(***************************************************************************)
\* do_deregister without the expiry check.
do_deregister_result_ungated(name_hash) ==
    IF name_hash \notin DOMAIN Registrations THEN "RegistrationNotFound"
    ELSE "Ok"

do_deregister_result(name_hash) ==
    IF name_hash \notin DOMAIN Registrations THEN "RegistrationNotFound"
    ELSE IF ~(Registrations[name_hash].expiry <= now) THEN "RegistrationNotExpired"
    ELSE "Ok"

\* Resolvers after do_deregister: the name's entry and the entry of every
\* stored sub name of it are removed.
do_deregister_resolvers(name_hash) ==
    LET gone == {name_hash} \cup
                {SubNameRegistrations[k].hash : k \in sub_keys(name_hash)}
    IN  [x \in (DOMAIN Resolvers) \ gone |-> Resolvers[x]]

\* do_deregister leaving the sub names of the name in place.
remove_prefix_nothing(name_hash) == SubNameRegistrations

\* SubNameRegistrations after remove_prefix(name_hash).
remove_prefix(name_hash) ==
    [k \in (DOMAIN SubNameRegistrations) \ sub_keys(name_hash) |->
        SubNameRegistrations[k]]

deregister(origin, name_hash) ==
    /\ op' = "deregister"
    /\ UNCHANGED <<now, controllersOnly, quote>>
    /\ LET res == IF origin.kind # "Signed" THEN "BadOrigin"
                  ELSE do_deregister_result(name_hash)
       IN  IF res # "Ok" THEN Fail(res)
           ELSE /\ Registrations' = Remove(Registrations, name_hash)
                /\ Resolvers' = do_deregister_resolvers(name_hash)
                /\ SubNameRegistrations' = remove_prefix(name_hash)
                /\ result' = "Ok"
                /\ UNCHANGED <<Commitments, ledger>>

(***************************************************************************)
(* register_sub_name                                                       *)
(***************************************************************************)
\* register_sub_name refusing a parent whose lease has expired.
register_sub_name_result_live_only(origin, name_hash, label) ==
    IF origin.kind # "Signed" THEN "BadOrigin"
    ELSE IF name_hash \notin DOMAIN Registrations THEN "RegistrationNotFound"
    ELSE IF Registrations[name_hash].owner # origin.who THEN "NotRegistrationOwner"
    ELSE IF ~(Registrations[name_hash].expiry > now) THEN "RegistrationExpired"
    ELSE IF <<name_hash, blake2_256(label)>> \in DOMAIN SubNameRegistrations
        THEN "SubNameAlreadyRegistered"
    ELSE "Ok"

\* register_sub_name treating a sub name left by a previous owner as free.
register_sub_name_result_over_stale(origin, name_hash, label) ==
    IF origin.kind # "Signed" THEN "BadOrigin"
    ELSE IF name_hash \notin DOMAIN Registrations THEN "RegistrationNotFound"
    ELSE IF Registrations[name_hash].owner # origin.who THEN "NotRegistrationOwner"
    ELSE IF /\ <<name_hash, blake2_256(label)>> \in DOMAIN SubNameRegistrations
            /\ SubNameRegistrations[<<name_hash, blake2_256(label)>>].owner =
                  Registrations[name_hash].owner
        THEN "SubNameAlreadyRegistered"
    ELSE "Ok"

register_sub_name_result(origin, name_hash, label) ==
    IF origin.kind # "Signed" THEN "BadOrigin"
    ELSE IF name_hash \notin DOMAIN Registrations THEN "RegistrationNotFound"
    ELSE IF Registrations[name_hash].owner # origin.who THEN "NotRegistrationOwner"
    ELSE IF <<name_hash, blake2_256(label)>> \in DOMAIN SubNameRegistrations
        THEN "SubNameAlreadyRegistered"
    ELSE "Ok"

do_register_sub_name(name_hash, label, registration) ==
    LET label_hash == blake2_256(label)
        sub_name_hash == generate_sub_name_hash(name_hash, label_hash)
    IN  Insert(SubNameRegistrations, <<name_hash, label_hash>>,
            [hash |-> sub_name_hash, owner |-> registration.owner,
             registrant |-> registration.owner])

register_sub_name(origin, name_hash, label) ==
    /\ op' = "register_sub_name"
    /\ UNCHANGED <<now, controllersOnly, quote>>
    /\ LET res == register_sub_name_result(origin, name_hash, label)
       IN  IF res # "Ok" THEN Fail(res)
           ELSE /\ SubNameRegistrations' =
                      do_register_sub_name(name_hash, label, Registrations[name_hash])
                /\ result' = "Ok"
                /\ UNCHANGED <<Commitments, Registrations, Resolvers, ledger>>

(***************************************************************************)
(* set_sub_name_address                                                    *)
(***************************************************************************)
set_sub_name_address_result(origin, name_hash) ==
    IF origin.kind # "Signed" THEN "BadOrigin"
    ELSE IF name_hash \notin DOMAIN Registrations THEN "RegistrationNotFound"
    ELSE IF Registrations[name_hash].owner # origin.who THEN "NotRegistrationOwner"
    ELSE IF ~(Registrations[name_hash].expiry > now) THEN "RegistrationExpired"
    ELSE "Ok"

do_set_sub_name_address(name_hash, label_hash, address) ==
    Insert(Resolvers, generate_sub_name_hash(name_hash, label_hash), address)

set_sub_name_address(origin, name_hash, label_hash, address) ==
    /\ op' = "set_sub_name_address"
    /\ UNCHANGED <<now, controllersOnly, quote>>
    /\ LET res == set_sub_name_address_result(origin, name_hash)
       IN  IF res # "Ok" THEN Fail(res)
           ELSE /\ Resolvers' = do_set_sub_name_address(name_hash, label_hash, address)
                /\ result' = "Ok"
                /\ UNCHANGED <<Commitments, Registrations, SubNameRegistrations,
                               ledger>>

(***************************************************************************)
(* deregister_sub_name                                                     *)
(***************************************************************************)
\* deregister_sub_name open to the owner recorded in the SubNameRegistration.
deregister_sub_name_result_sub_owner(origin, name_hash, label_hash) ==
    IF origin.kind # "Signed" THEN "BadOrigin"
    ELSE IF name_hash \notin DOMAIN Registrations THEN "RegistrationNotFound"
    ELSE IF <<name_hash, label_hash>> \notin DOMAIN SubNameRegistrations
        THEN "RegistrationNotFound"
    ELSE IF SubNameRegistrations[<<name_hash, label_hash>>].owner # origin.who
        THEN "NotRegistrationOwner"
    ELSE "Ok"

deregister_sub_name_result(origin, name_hash, label_hash) ==
    IF origin.kind # "Signed" THEN "BadOrigin"
    ELSE IF name_hash \notin DOMAIN Registrations THEN "RegistrationNotFound"
    ELSE IF Registrations[name_hash].owner # origin.who THEN "NotRegistrationOwner"
    ELSE IF <<name_hash, label_hash>> \notin DOMAIN SubNameRegistrations
        THEN "RegistrationNotFound"
    ELSE "Ok"

deregister_sub_name(origin, name_hash, label_hash) ==
    /\ op' = "deregister_sub_name"
    /\ UNCHANGED <<now, controllersOnly, quote>>
    /\ LET res == deregister_sub_name_result(origin, name_hash, label_hash)
           sub_name_hash == generate_sub_name_hash(name_hash, label_hash)
       IN  IF res # "Ok" THEN Fail(res)
           ELSE /\ SubNameRegistrations' =
                      Remove(SubNameRegistrations, <<name_hash, label_hash>>)
                /\ Resolvers' = Remove(Resolvers, sub_name_hash)
                /\ result' = "Ok"
                /\ UNCHANGED <<Commitments, Registrations, ledger>>

(***************************************************************************)
(* force_register                                                          *)
(***************************************************************************)
\* A registration manager that lets every origin through.
RegistrationManager_anyone(origin) == TRUE

\* T::RegistrationManager::ensure_origin: the super-user origin.
RegistrationManager(origin) == origin.kind = "Root"

\* force_register turning away a name that is not available.
force_register_if_available(origin, name_hash, who, periods) ==
    /\ op' = "force_register"
    /\ UNCHANGED <<now, controllersOnly, quote>>
    /\ IF ~RegistrationManager(origin) THEN Fail("BadOrigin")
       ELSE IF ~is_available(name_hash, now) THEN Fail("AlreadyRegistered")
       ELSE /\ Registrations' = do_register(name_hash, who, 0, periods)
            /\ result' = "Ok"
            /\ UNCHANGED <<Commitments, SubNameRegistrations, Resolvers, ledger>>

force_register(origin, name_hash, who, periods) ==
    /\ op' = "force_register"
    /\ UNCHANGED <<now, controllersOnly, quote>>
    /\ IF ~RegistrationManager(origin) THEN Fail("BadOrigin")
       ELSE /\ Registrations' = do_register(name_hash, who, 0, periods)
            /\ result' = "Ok"
            /\ UNCHANGED <<Commitments, SubNameRegistrations, Resolvers, ledger>>

(***************************************************************************)
(* The clock: frame_system advances the block number between calls.        *)
(***************************************************************************)
Tick ==
    /\ now < MaxNow
    /\ now' = now + 1
    /\ op' = "tick"
    /\ result' = "Ok"
    /\ UNCHANGED <<stores, ledger, controllersOnly, quote>>

(***************************************************************************)
(* registration_fee is public: a caller asks what a registration costs.    *)
(***************************************************************************)
quote_registration_fee(name, periods) ==
    /\ op' = "registration_fee"
    /\ result' = "Ok"
    /\ quote' = <<[name |-> name, periods |-> periods,
                   fee |-> registration_fee(name, periods)]>>
    /\ UNCHANGED <<now, controllersOnly, stores, ledger>>

Periods == 0..MaxPeriods

Next ==
    \/ \E o \in Origins, w \in Accounts, h \in CommitmentHashes : commit(o, w, h)
    \/ \E o \in Origins, n \in Names, s \in Secrets, p \in Periods : reveal(o, n, s, p)
    \/ \E o \in Origins, t \in Accounts, h \in NameHashes : transfer(o, t, h)
    \/ \E o \in Origins, h \in NameHashes, p \in Periods : renew(o, h, p)
    \/ \E o \in Origins, h \in NameHashes, a \in Accounts : set_address(o, h, a)
    \/ \E o \in Origins, h \in NameHashes : deregister(o, h)
    \/ \E o \in Origins, h \in NameHashes, l \in Labels : register_sub_name(o, h, l)
    \/ \E o \in Origins, h \in NameHashes, l \in LabelHashes, a \in Accounts :
          set_sub_name_address(o, h, l, a)
    \/ \E o \in Origins, h \in NameHashes, l \in LabelHashes :
          deregister_sub_name(o, h, l)
    \/ \E o \in Origins, h \in NameHashes, w \in Accounts, p \in Periods :
          force_register(o, h, w, p)
    \/ Tick

Spec == Init /\ [][Next]_vars

(***************************************************************************)
(* The commit-reveal protocol on its own: commit, reveal and the clock.    *)
(***************************************************************************)
NextCommitReveal ==
    \/ \E o \in Origins, w \in Accounts, n \in Names :
          commit(o, w, commitment_hash_of(n, 0))
    \/ \E o \in Origins, n \in Names, p \in Periods : reveal(o, n, 0, p)
    \/ Tick

SpecCommitReveal == Init /\ [][NextCommitReveal]_vars


(***************************************************************************)
(* The specifications below leave commit out, the one dispatchable that    *)
(* reads ControllersOnly: they start with the mode off.                    *)
(***************************************************************************)
InitUngated == Init /\ ~controllersOnly

(***************************************************************************)
(* The life of a lease: registration by the registration manager, then     *)
(* transfer, set_address, deregister and the clock.                        *)
(***************************************************************************)
NextLease ==
    \/ \E o \in Origins, h \in NameHashes, w \in Accounts, p \in Periods :
          force_register(o, h, w, p)
    \/ \E o \in Origins, t \in Accounts, h \in NameHashes : transfer(o, t, h)
    \/ \E o \in Origins, h \in NameHashes, a \in Accounts : set_address(o, h, a)
    \/ \E o \in Origins, h \in NameHashes : deregister(o, h)
    \/ Tick

SpecLease == InitUngated /\ [][NextLease]_vars

(***************************************************************************)
(* Renewal: registration by the registration manager, renew and the clock. *)
(***************************************************************************)
NextRenew ==
    \/ \E o \in Origins, h \in NameHashes, w \in Accounts, p \in Periods :
          force_register(o, h, w, p)
    \/ \E o \in Origins, h \in NameHashes, p \in Periods : renew(o, h, p)
    \/ Tick

SpecRenew == InitUngated /\ [][NextRenew]_vars

(***************************************************************************)
(* Sub names: a parent registered by the registration manager, its sub     *)
(* names and their resolver entries, deregistration and the clock.         *)
(***************************************************************************)
NextSubNames ==
    \/ \E o \in Origins, h \in NameHashes, w \in Accounts, p \in Periods :
          force_register(o, h, w, p)
    \/ \E o \in Origins, h \in NameHashes, l \in Labels : register_sub_name(o, h, l)
    \/ \E o \in Origins, h \in NameHashes, l \in LabelHashes, a \in Accounts :
          set_sub_name_address(o, h, l, a)
    \/ \E o \in Origins, h \in NameHashes, l \in LabelHashes :
          deregister_sub_name(o, h, l)
    \/ \E o \in Origins, h \in NameHashes : deregister(o, h)
    \/ Tick

SpecSubNames == InitUngated /\ [][NextSubNames]_vars

(***************************************************************************)
(* A parent and its sub names over the whole life of the parent: commit    *)
(* and reveal of "abcde", registration by the registration manager, sub    *)
(* names registered and removed, deregistration and the clock.             *)
(***************************************************************************)
NextParents ==
    \/ \E o \in Origins, w \in Accounts :
          commit(o, w, commitment_hash_of(NameAbcde, 0))
    \/ \E o \in Origins, p \in Periods : reveal(o, NameAbcde, 0, p)
    \/ \E o \in Origins, w \in Accounts, p \in Periods :
          force_register(o, name_hash_of(NameAbcde), w, p)
    \/ \E o \in Origins, l \in Labels :
          register_sub_name(o, name_hash_of(NameAbcde), l)
    \/ \E o \in Origins, l \in LabelHashes :
          deregister_sub_name(o, name_hash_of(NameAbcde), l)
    \/ \E o \in Origins : deregister(o, name_hash_of(NameAbcde))
    \/ Tick

SpecParents == Init /\ [][NextParents]_vars

(***************************************************************************)
(* The registration manager next to the commit stage: commit of "abc",     *)
(* force_register of any name and the clock.                               *)
(***************************************************************************)
NextManager ==
    \/ \E o \in Origins, w \in Accounts :
          commit(o, w, commitment_hash_of(NameAbc, 0))
    \/ \E o \in Origins, h \in NameHashes, w \in Accounts, p \in Periods :
          force_register(o, h, w, p)
    \/ Tick

SpecManager == Init /\ [][NextManager]_vars

(***************************************************************************)
(* Racing reveals: commitments to "abcde" under either secret, their       *)
(* reveals in any order and the clock.                                     *)
(***************************************************************************)
NextRace ==
    \/ \E o \in Origins, w \in Accounts, s \in Secrets :
          commit(o, w, commitment_hash_of(NameAbcde, s))
    \/ \E o \in Origins, s \in Secrets, p \in Periods :
          reveal(o, NameAbcde, s, p)
    \/ Tick

SpecRace == Init /\ [][NextRace]_vars

(***************************************************************************)
(* The fee schedule on its own: names of every length up to MaxNameLen,    *)
(* periods up to MaxFeePeriods, far enough for the fee to saturate.        *)
(***************************************************************************)
FeeNames == UNION {[1..k -> {97}] : k \in 0..MaxNameLen}
FeePeriods == 0..MaxFeePeriods

NextFee == \E n \in FeeNames, p \in FeePeriods : quote_registration_fee(n, p)

SpecFee == InitUngated /\ [][NextFee]_vars

(***************************************************************************)
(* The dispatchables that call the currency, commit, reveal and renew, on  *)
(* the name "abcde", with deregister and the clock.                        *)
(***************************************************************************)
NextDeposit ==
    \/ \E o \in Origins, w \in Accounts :
          commit(o, w, commitment_hash_of(NameAbcde, 0))
    \/ \E o \in Origins, p \in Periods : reveal(o, NameAbcde, 0, p)
    \/ \E o \in Origins, p \in Periods : renew(o, name_hash_of(NameAbcde), p)
    \/ \E o \in Origins : deregister(o, name_hash_of(NameAbcde))
    \/ Tick

SpecDeposit == Init /\ [][NextDeposit]_vars

(***************************************************************************)
(* A name with children, registered over: "abc" registered by the          *)
(* registration manager, its resolver entry, a sub name and the sub name's *)
(* resolver entry, and the clock.                                          *)
(***************************************************************************)
NextOverwrite ==
    LET h == name_hash_of(NameAbc) IN
    \/ \E o \in Origins, w \in Accounts, p \in Periods : force_register(o, h, w, p)
    \/ \E o \in Origins, a \in Accounts : set_address(o, h, a)
    \/ \E o \in Origins, l \in Labels : register_sub_name(o, h, l)
    \/ \E o \in Origins, l \in LabelHashes, a \in Accounts :
          set_sub_name_address(o, h, l, a)
    \/ Tick

SpecOverwrite == InitUngated /\ [][NextOverwrite]_vars

(***************************************************************************)
(* A lapsed name taken again through commit and reveal: "abcde", each      *)
(* sender committing for itself, the name's resolver entry, a sub name and *)
(* its resolver entry, and the clock.                                      *)
(***************************************************************************)
NextStale ==
    LET h == name_hash_of(NameAbcde) IN
    \/ \E o \in Origins : commit(o, o.who, commitment_hash_of(NameAbcde, 0))
    \/ \E o \in Origins, p \in Periods : reveal(o, NameAbcde, 0, p)
    \/ \E o \in Origins : set_address(o, h, "alice")
    \/ \E o \in Origins, l \in Labels : register_sub_name(o, h, l)
    \/ \E o \in Origins, l \in LabelHashes : set_sub_name_address(o, h, l, "alice")
    \/ Tick

SpecStale == InitUngated /\ [][NextStale]_vars

(***************************************************************************)
(* The expiry boundary: every dispatchable that reads or writes the expiry *)
(* of "abcde".  alice is the one who commits, reveals and renews, the      *)
(* registration manager registers for either account, and every origin     *)
(* tries transfer, set_address, set_sub_name_address and deregister.       *)
(***************************************************************************)
NextBoundary ==
    LET h == name_hash_of(NameAbcde) IN
    \/ commit(Signed("alice"), "alice", commitment_hash_of(NameAbcde, 0))
    \/ \E p \in Periods : reveal(Signed("alice"), NameAbcde, 0, p)
    \/ \E w \in Accounts, p \in Periods : force_register(Root, h, w, p)
    \/ \E p \in Periods : renew(Signed("alice"), h, p)
    \/ \E o \in Origins, t \in Accounts : transfer(o, t, h)
    \/ \E o \in Origins : set_address(o, h, "alice")
    \/ \E o \in Origins, l \in LabelHashes : set_sub_name_address(o, h, l, "alice")
    \/ \E o \in Origins : deregister(o, h)
    \/ Tick

SpecBoundary == InitUngated /\ [][NextBoundary]_vars

(***************************************************************************)
(* Sibling sub names: one parent, two labels under it.                     *)
(***************************************************************************)
SiblingLabels == {<<119>>, <<120>>}
SiblingLabelHashes == {blake2_256(l) : l \in SiblingLabels}

NextSiblings ==
    \/ \E o \in Origins, w \in Accounts, p \in Periods :
          force_register(o, name_hash_of(NameAbc), w, p)
    \/ \E o \in Origins, l \in SiblingLabels :
          register_sub_name(o, name_hash_of(NameAbc), l)
    \/ \E o \in Origins, l \in SiblingLabelHashes, a \in Accounts :
          set_sub_name_address(o, name_hash_of(NameAbc), l, a)
    \/ \E o \in Origins, l \in SiblingLabelHashes :
          deregister_sub_name(o, name_hash_of(NameAbc), l)
    \/ Tick

SpecSiblings == InitUngated /\ [][NextSiblings]_vars

(***************************************************************************)
(* The resolver key space.  A sub-name hash is blake2_256 of the 64 bytes  *)
(* nameHash ++ labelHash, and a name is any byte string: SubNameAlias is   *)
(* the name whose bytes are nameHash("abc") ++ labelHash("w"), so that its *)
(* name hash is the sub-name hash of "w" under "abc".                      *)
(***************************************************************************)
SubNameAlias == name_hash_of(NameAbc) \o blake2_256(<<119>>)
TopLevelHashes == {name_hash_of(NameAbc), name_hash_of(SubNameAlias)}

NextResolvers ==
    \/ \E o \in Origins, h \in TopLevelHashes, w \in Accounts, p \in Periods :
          force_register(o, h, w, p)
    \/ \E o \in Origins, h \in TopLevelHashes, a \in Accounts : set_address(o, h, a)
    \/ \E o \in Origins, h \in TopLevelHashes, l \in LabelHashes, a \in Accounts :
          set_sub_name_address(o, h, l, a)
    \/ Tick

SpecResolvers == InitUngated /\ [][NextResolvers]_vars

(***************************************************************************)
(* Claims about commit and reveal, checked under SpecCommitReveal.         *)
(***************************************************************************)
SignedOrigins == {o \in Origins : o.kind = "Signed"}

\* What the callers of the ledger see of a fee: the tier of the name's
\* length plus the per-period fee, clamped at the largest balance.
TierOf(len) ==
    IF len < 3 THEN MaxBalance
    ELSE IF len = 3 THEN TierThreeLetters
    ELSE IF len = 4 THEN TierFourLetters
    ELSE TierDefault

FeeOf(name, periods) ==
    Min(TierOf(Len(name)) + Min(periods * FeePerRegistrationPeriod, MaxBalance),
        MaxBalance)

Live(name_hash) ==
    /\ name_hash \in DOMAIN Registrations
    /\ Registrations[name_hash].expiry > now

\* A commit of a hash that is already committed, by signed origin o.
C1_Case(o, w, n) ==
    /\ commitment_hash_of(n, 0) \in DOMAIN Commitments
    /\ commit(o, w, commitment_hash_of(n, 0))

C1_Kept(o, n) ==
    /\ Commitments' = Commitments
    /\ reserved' = reserved
    /\ free' = free

C1_OriginalStep ==
    \A o \in SignedOrigins, w \in Accounts, n \in Names :
        C1_Case(o, w, n) => (result' = "AlreadyCommitted" /\ C1_Kept(o, n))

\* C1 as claimed: while a commitment for h is stored, a further commit of h
\* by any sender for any beneficiary fails with AlreadyCommitted and leaves
\* the stored commitment and the sender's reserved balance unchanged.
C1_CommitUniquenessAsClaimed == [][C1_OriginalStep]_vars

C1_AmendedStep ==
    \A o \in SignedOrigins, w \in Accounts, n \in Names :
        C1_Case(o, w, n) =>
            /\ result' = IF controllersOnly /\ o.who \notin ControllerAccounts
                         THEN "NotControllerAccount"
                         ELSE "AlreadyCommitted"
            /\ C1_Kept(o, n)

\* C1 amended: while a commitment for h is stored, a further commit of h by
\* any sender for any beneficiary fails and leaves the stored commitment and
\* the sender's balances unchanged; the error is AlreadyCommitted, except
\* that a sender outside ControllerAccounts in controllers-only mode is
\* turned away first, with NotControllerAccount.
C1_CommitUniqueness == [][C1_AmendedStep]_vars

\* A second commit of a stored hash has just been refused.
C1_Witness ==
    /\ op = "commit"
    /\ result = "AlreadyCommitted"
    /\ Commitments # EmptyMap

C2_Step ==
    /\ \A o \in SignedOrigins, n \in Names, p \in Periods :
          reveal(o, n, 0, p) =>
              /\ commitment_hash_of(n, 0) \notin DOMAIN Commitments'
              /\ commitment_hash_of(n, 0) \notin DOMAIN Commitments =>
                    /\ result' = "CommitmentNotFound"
                    /\ UNCHANGED <<stores, ledger>>
    /\ \A h \in CommitmentHashes :
          (h \notin DOMAIN Commitments /\ h \in DOMAIN Commitments') =>
              (op' = "commit" /\ result' = "Ok")

\* C2: after any reveal by a signed caller the commitment of
\* commitmentHash(name, secret) is absent, whatever the reveal returned; it
\* stays absent until a commit stores it again; and a reveal that finds no
\* commitment fails with CommitmentNotFound and changes no store.
C2_RevealConsumesOnce == [][C2_Step]_vars

\* A name was registered by a reveal, and a second reveal of the same
\* (name, secret) has just failed for want of the commitment.
C2_Witness ==
    /\ op = "reveal"
    /\ result = "CommitmentNotFound"
    /\ \E n \in Names :
          /\ name_hash_of(n) \in DOMAIN Registrations
          /\ commitment_hash_of(n, 0) \notin DOMAIN Commitments
          /\ \A m \in Names \ {n} : commitment_hash_of(m, 0) \in DOMAIN Commitments

\* C3: a call that returns an error leaves the Commitments, Registrations,
\* SubNameRegistrations and Resolvers stores as they were before the call.
C3_AllOrNothing == [][(op' # "tick" /\ result' # "Ok") => UNCHANGED stores]_vars

\* A reveal of a stored commitment for a name whose lease is live.
C4_Case(o, n, p) ==
    /\ commitment_hash_of(n, 0) \in DOMAIN Commitments
    /\ p > MinimumRegistrationPeriods
    /\ Live(name_hash_of(n))
    /\ reveal(o, n, 0, p)

C4_Effect(n) ==
    /\ commitment_hash_of(n, 0) \notin DOMAIN Commitments'
    /\ UNCHANGED <<ledger, Registrations>>

C4_OriginalStep ==
    \A o \in SignedOrigins, n \in Names, p \in Periods :
        C4_Case(o, n, p) => (result' = "Ok" /\ C4_Effect(n))

\* C4 as claimed: a reveal that finds its commitment, with enough periods,
\* for a name with an unexpired Registration returns success, consumes the
\* commitment, withdraws no fee and leaves the Registration unchanged.
C4_UnavailableRevealAsClaimed == [][C4_OriginalStep]_vars

C4_AmendedStep ==
    \A o \in SignedOrigins, n \in Names, p \in Periods :
        C4_Case(o, n, p) => (result' = "AlreadyRegistered" /\ C4_Effect(n))

\* C4 amended: such a reveal fails with AlreadyRegistered; it has consumed
\* the commitment all the same, withdraws no fee and leaves the existing
\* Registration unchanged.
C4_UnavailableReveal == [][C4_AmendedStep]_vars

\* A reveal has just lost against a live lease: its commitment is gone.
C4_Witness ==
    /\ op = "reveal"
    /\ result = "AlreadyRegistered"
    /\ \E n \in Names :
          /\ Live(name_hash_of(n))
          /\ commitment_hash_of(n, 0) \notin DOMAIN Commitments

C5_Step ==
    \A o \in SignedOrigins, n \in Names, p \in Periods :
        LET h == commitment_hash_of(n, 0)
            nh == name_hash_of(n)
        IN  ( /\ h \in DOMAIN Commitments
              /\ p > MinimumRegistrationPeriods
              /\ ~Live(nh)
              /\ free[o.who] >= FeeOf(n, p)
              /\ reveal(o, n, 0, p) )
            =>
            ( /\ result' = "Ok"
              /\ free' = [free EXCEPT ![o.who] = @ - FeeOf(n, p)]
              /\ feePot' = feePot + FeeOf(n, p)
              /\ reserved' = reserved
              /\ DOMAIN Registrations' = DOMAIN Registrations \cup {nh}
              /\ \A x \in DOMAIN Registrations \ {nh} :
                    Registrations'[x] = Registrations[x]
              /\ Registrations'[nh] =
                    [owner |-> Commitments[h].who,
                     registrant |-> Commitments[h].who,
                     expiry |-> Min(now + p * BlocksPerRegistrationPeriod, MaxBlock),
                     deposit |-> 0] )

\* C5: a reveal by a signed caller that finds its commitment, with periods
\* above the minimum, for an available name, by a revealer whose free
\* balance covers the fee, succeeds: exactly registrationFee(len(name),
\* periods) moves from the revealer's free balance to the fee sink, and the
\* Registration of nameHash(name) becomes owner = registrant = the
\* commitment's beneficiary, expiry = now + periods *
\* BlocksPerRegistrationPeriod (saturating), deposit = 0.
C5_RevealRegisters == [][C5_Step]_vars

\* A reveal paid by alice has just registered a name for bob, after block 0.
C5_Witness ==
    /\ op = "reveal"
    /\ result = "Ok"
    /\ now > 0
    /\ free["bob"] = InitialBalance
    /\ feePot > 0
    /\ \E nh \in DOMAIN Registrations :
          /\ Registrations[nh].owner = "bob"
          /\ Registrations[nh].expiry > now

C6_Step ==
    \A n \in Names :
        LET h == commitment_hash_of(n, 0)
            nh == name_hash_of(n)
        IN  /\ (Live(nh) /\ op' \in {"commit", "reveal"}) =>
                  (nh \in DOMAIN Registrations' /\ Registrations'[nh] = Registrations[nh])
            /\ \A o \in SignedOrigins, p \in Periods :
                  ( /\ h \in DOMAIN Commitments
                    /\ p > MinimumRegistrationPeriods
                    /\ free[o.who] >= FeeOf(n, p)
                    /\ reveal(o, n, 0, p) )
                  =>
                  ( (nh \notin DOMAIN Registrations \/ Registrations[nh].expiry <= now)
                    <=> ( /\ result' = "Ok"
                          /\ Registrations'[nh].owner = Commitments[h].who
                          /\ Registrations'[nh].expiry >= now ) )

\* C6: a reveal that could register (commitment found, periods above the
\* minimum, fee covered) does register exactly when the name has no
\* Registration or one with expiry <= now; and while a Registration has
\* expiry > now, no commit and no reveal by any account changes its owner,
\* registrant or expiry.
C6_AvailabilityMonotone == [][C6_Step]_vars

\* The five-letter name alone has been registered, and twice: the fee sink
\* holds two fees, so the second reveal took over a lapsed lease.
C6_Witness ==
    /\ op = "reveal"
    /\ result = "Ok"
    /\ DOMAIN Registrations = {name_hash_of(NameAbcde)}
    /\ feePot = 2 * FeeOf(NameAbcde, 1)
    /\ Live(name_hash_of(NameAbcde))

(***************************************************************************)
(* Claims about sub names, checked under SpecSubNames.                     *)
(***************************************************************************)
C7_Step ==
    \A o \in SignedOrigins, nh \in NameHashes :
        (deregister(o, nh) /\ result' = "Ok") =>
            /\ \A k \in DOMAIN SubNameRegistrations' : k[1] # nh
            /\ \A lh \in LabelHashes :
                  generate_sub_name_hash(nh, lh) \notin DOMAIN Resolvers'

\* C7: after a successful deregister of a parent no SubNameRegistration
\* keyed by (parent, *) remains, and for every label hash l the Resolvers
\* lookup of subNameHash(parent, l) is absent, whatever register_sub_name,
\* set_sub_name_address and deregister_sub_name calls came before.
C7_CascadingDeletion == [][C7_Step]_vars

(***************************************************************************)
(* Claims about leases, checked under SpecLease and SpecRenew.             *)
(***************************************************************************)
C8_Step ==
    /\ \A o \in SignedOrigins, nh \in NameHashes :
          deregister(o, nh) =>
              /\ nh \notin DOMAIN Registrations =>
                    (result' = "RegistrationNotFound" /\ UNCHANGED <<stores, ledger>>)
              /\ Live(nh) =>
                    (result' = "RegistrationNotExpired" /\ UNCHANGED <<stores, ledger>>)
              /\ (nh \in DOMAIN Registrations /\ ~Live(nh)) =>
                    /\ result' = "Ok"
                    /\ nh \notin DOMAIN Registrations'
                    /\ nh \notin DOMAIN Resolvers'
                    /\ \A x \in DOMAIN Registrations \ {nh} :
                          x \in DOMAIN Registrations' /\ Registrations'[x] = Registrations[x]
    /\ \A nh \in DOMAIN Registrations :
          nh \notin DOMAIN Registrations' =>
              /\ op' = "deregister"
              /\ result' = "Ok"
              /\ Registrations[nh].expiry <= now

\* C8: deregister by any signed caller fails with RegistrationNotFound when
\* the name has no Registration, with RegistrationNotExpired when its
\* expiry > now, and otherwise succeeds whoever the caller is, removing the
\* Registration and the resolver entry of the name; and a Registration
\* leaves storage only by a successful deregister, at a block >= its expiry.
C8_DeregisterExpiryGated == [][C8_Step]_vars

\* A lapsed name that had a resolver entry has just been reaped while the
\* other name's lease goes on.
C8_Witness ==
    /\ op = "deregister"
    /\ result = "Ok"
    /\ Resolvers = EmptyMap
    /\ \E nh \in NameHashes :
          /\ nh \notin DOMAIN Registrations
          /\ \A x \in NameHashes \ {nh} : Live(x)

C9_Step ==
    /\ \A o \in SignedOrigins, to \in Accounts, nh \in NameHashes :
          transfer(o, to, nh) =>
              IF nh \notin DOMAIN Registrations
                  THEN result' = "RegistrationNotFound" /\ UNCHANGED <<stores, ledger>>
              ELSE IF Registrations[nh].owner # o.who
                  THEN result' = "NotRegistrationOwner" /\ UNCHANGED <<stores, ledger>>
              ELSE IF Registrations[nh].expiry <= now
                  THEN result' = "RegistrationExpired" /\ UNCHANGED <<stores, ledger>>
              ELSE /\ result' = "Ok"
                   /\ DOMAIN Registrations' = DOMAIN Registrations
                   /\ Registrations'[nh].owner = to
                   /\ Registrations'[nh].registrant = Registrations[nh].registrant
                   /\ Registrations'[nh].expiry = Registrations[nh].expiry
                   /\ Registrations'[nh].deposit = Registrations[nh].deposit
                   /\ \A x \in DOMAIN Registrations \ {nh} :
                         Registrations'[x] = Registrations[x]
                   /\ UNCHANGED <<Commitments, SubNameRegistrations, Resolvers, ledger>>
    /\ \A o \in SignedOrigins, a \in Accounts, nh \in DOMAIN Registrations :
          (Registrations[nh].owner # o.who /\ set_address(o, nh, a)) =>
              (result' = "NotRegistrationOwner" /\ UNCHANGED <<stores, ledger>>)

\* C9: transfer fails with RegistrationNotFound if the name has no
\* Registration, else NotRegistrationOwner if the caller is not its owner,
\* else RegistrationExpired if expiry <= now; otherwise it sets owner = to
\* and changes nothing else.  A caller who is not the owner (the previous
\* owner, after a transfer to someone else) is refused by transfer and by
\* set_address with NotRegistrationOwner.
C9_Transfer == [][C9_Step]_vars

\* The owner has handed a live name to the other account, and a further call
\* on it has just been refused for want of ownership.
C9_Witness ==
    /\ result = "NotRegistrationOwner"
    /\ op \in {"transfer", "set_address"}
    /\ \E nh \in DOMAIN Registrations :
          /\ Live(nh)
          /\ Registrations[nh].owner # Registrations[nh].registrant

Max(a, b) == IF a > b THEN a ELSE b

C10_Step ==
    \A o \in SignedOrigins, nh \in NameHashes, p \in Periods :
        (renew(o, nh, p) /\ result' = "Ok") =>
            /\ nh \in DOMAIN Registrations
            /\ Registrations'[nh].expiry =
                  Min(Max(Registrations[nh].expiry, now)
                        + p * BlocksPerRegistrationPeriod, MaxBlock)
            /\ Registrations'[nh].expiry >= Registrations[nh].expiry
            /\ Registrations'[nh].expiry >= now

\* C10: a successful renew sets expiry to max(oldExpiry, now) + periods *
\* BlocksPerRegistrationPeriod, the sum clamped at the largest block number:
\* a live lease is extended from its old expiry, a lapsed one is counted
\* from now, and the new expiry is never below the old one.
C10_RenewNeverShortens == [][C10_Step]_vars

\* A lease that was still running has just been extended past the reach of
\* one registration.
C10_Witness ==
    /\ op = "renew"
    /\ result = "Ok"
    /\ \E nh \in DOMAIN Registrations :
          Registrations[nh].expiry > now + MaxPeriods * BlocksPerRegistrationPeriod

(***************************************************************************)
(* Claims about renew, set_address and force_register.                     *)
(***************************************************************************)
C11_Step ==
    \A o \in SignedOrigins, nh \in NameHashes, p \in Periods :
        renew(o, nh, p) =>
            LET fee == Min(p * FeePerRegistrationPeriod, MaxBalance) IN
            /\ (result' = "RegistrationNotFound") <=> (nh \notin DOMAIN Registrations)
            /\ nh \notin DOMAIN Registrations => UNCHANGED <<stores, ledger>>
            /\ (nh \in DOMAIN Registrations /\ free[o.who] >= fee) =>
                  /\ result' = "Ok"
                  /\ free' = [free EXCEPT ![o.who] = free[o.who] - fee]
                  /\ feePot' = feePot + fee
                  /\ reserved' = reserved
                  /\ DOMAIN Registrations' = DOMAIN Registrations
                  /\ \A h \in DOMAIN Registrations :
                        /\ Registrations'[h].owner = Registrations[h].owner
                        /\ Registrations'[h].registrant = Registrations[h].registrant
                        /\ Registrations'[h].deposit = Registrations[h].deposit
                        /\ h # nh => Registrations'[h] = Registrations[h]
                  /\ UNCHANGED <<Commitments, SubNameRegistrations, Resolvers>>
            /\ (nh \in DOMAIN Registrations /\ free[o.who] < fee) =>
                  /\ result' \notin {"Ok", "RegistrationNotFound"}
                  /\ UNCHANGED <<stores, ledger>>

\* C11: renew has no ownership check.  It fails with RegistrationNotFound
\* exactly when no Registration exists for the name hash; for every signed
\* caller, owner or not, on a live or an expired lease, who can pay
\* length_fee(periods), it succeeds, withdraws exactly that fee from the
\* caller and changes the expiry only (owner, registrant, deposit and every
\* other record stay); when the withdrawal fails nothing changes.
C11_RenewByAnyone == [][C11_Step]_vars

\* bob has paid for a renewal of a lease owned by alice, who paid nothing.
C11_Witness ==
    /\ op = "renew" /\ result = "Ok"
    /\ free["alice"] = InitialBalance
    /\ free["bob"] < InitialBalance
    /\ \A h \in DOMAIN Registrations : Registrations[h].owner = "alice"
    /\ \E h \in DOMAIN Registrations : Registrations[h].expiry <= now

C12_GateStep ==
    \A o \in SignedOrigins, nh \in TopLevelHashes, a \in Accounts :
        set_address(o, nh, a) =>
            /\ result' =
                  IF nh \notin DOMAIN Registrations THEN "RegistrationNotFound"
                  ELSE IF Registrations[nh].owner # o.who THEN "NotRegistrationOwner"
                  ELSE IF Registrations[nh].expiry <= now THEN "RegistrationExpired"
                  ELSE "Ok"
            /\ result' # "Ok" => Resolvers' = Resolvers
            /\ result' = "Ok" =>
                  /\ DOMAIN Resolvers' = DOMAIN Resolvers \cup {nh}
                  /\ Resolvers'[nh] = a
                  /\ \A h \in DOMAIN Resolvers \ {nh} : Resolvers'[h] = Resolvers[h]
            /\ Registrations' = Registrations

C12_WriterStep ==
    \A nh \in TopLevelHashes :
        (/\ nh \in DOMAIN Resolvers'
         /\ nh \in DOMAIN Resolvers => Resolvers'[nh] # Resolvers[nh]) =>
            /\ nh \in DOMAIN Registrations
            /\ Live(nh)
            /\ \E a \in Accounts :
                  set_address(Signed(Registrations[nh].owner), nh, a)

\* C12: set_address fails with RegistrationNotFound, NotRegistrationOwner or
\* RegistrationExpired (expiry <= now) as transfer does and then leaves
\* Resolvers unchanged; otherwise it overwrites the resolver entry of the name
\* hash with the address and changes no Registration.  Hence every write of a
\* resolver entry keyed by a top-level name hash is made by the account that
\* owns a live Registration of that name at that time.
C12_SetAddress == [][C12_GateStep /\ C12_WriterStep]_vars

(***************************************************************************)
(* Claims about sub names.                                                 *)
(***************************************************************************)
C13_Step ==
    \A o \in SignedOrigins, nh \in NameHashes, l \in Labels :
        register_sub_name(o, nh, l) =>
            LET key == <<nh, <<HashTag>> \o l>> IN
            /\ result' =
                  IF nh \notin DOMAIN Registrations THEN "RegistrationNotFound"
                  ELSE IF Registrations[nh].owner # o.who THEN "NotRegistrationOwner"
                  ELSE IF key \in DOMAIN SubNameRegistrations
                      THEN "SubNameAlreadyRegistered"
                  ELSE "Ok"
            /\ result' # "Ok" => SubNameRegistrations' = SubNameRegistrations
            /\ result' = "Ok" =>
                  /\ DOMAIN SubNameRegistrations' =
                        DOMAIN SubNameRegistrations \cup {key}
                  /\ SubNameRegistrations'[key] =
                        [hash |-> <<HashTag>> \o nh \o <<HashTag>> \o l,
                         owner |-> Registrations[nh].owner,
                         registrant |-> Registrations[nh].owner]
                  /\ \A k \in DOMAIN SubNameRegistrations :
                        SubNameRegistrations'[k] = SubNameRegistrations[k]
            /\ UNCHANGED <<Commitments, Registrations, Resolvers, ledger>>

\* C13: register_sub_name fails with RegistrationNotFound when the parent
\* Registration is absent, NotRegistrationOwner when the caller is not the
\* parent's owner and SubNameAlreadyRegistered when the key (parent,
\* labelHash(label)) exists, leaving the existing entry unchanged; otherwise,
\* also when the parent's lease has expired, it inserts the SubRegistration
\* {hash = subNameHash(parent, labelHash), owner = registrant = the parent's
\* current owner}.
C13_RegisterSubName == [][C13_Step]_vars

\* A sub name has just been registered under a parent whose lease is over.
C13_Witness ==
    /\ op = "register_sub_name" /\ result = "Ok"
    /\ \E k \in DOMAIN SubNameRegistrations :
          /\ k[1] \in DOMAIN Registrations
          /\ Registrations[k[1]].expiry <= now
          /\ SubNameRegistrations[k].owner = Registrations[k[1]].owner
    /\ \A k \in DOMAIN SubNameRegistrations :
          k[1] \in DOMAIN Registrations /\ Registrations[k[1]].expiry <= now

C14_Step ==
    \A o \in SignedOrigins, lh \in SiblingLabelHashes :
        LET nh == name_hash_of(NameAbc)
            key == <<nh, lh>>
        IN  deregister_sub_name(o, nh, lh) =>
            /\ (result' = "Ok") <=>
                  /\ nh \in DOMAIN Registrations
                  /\ Registrations[nh].owner = o.who
                  /\ key \in DOMAIN SubNameRegistrations
            /\ (/\ nh \in DOMAIN Registrations
                 /\ Registrations[nh].owner = o.who
                 /\ key \notin DOMAIN SubNameRegistrations) =>
                  result' = "RegistrationNotFound"
            /\ result' # "Ok" => UNCHANGED <<stores, ledger>>
            /\ result' = "Ok" =>
                  /\ DOMAIN SubNameRegistrations' = DOMAIN SubNameRegistrations \ {key}
                  /\ \A k \in DOMAIN SubNameRegistrations' :
                        SubNameRegistrations'[k] = SubNameRegistrations[k]
                  /\ DOMAIN Resolvers' = DOMAIN Resolvers \ {<<HashTag>> \o nh \o lh}
                  /\ \A h \in DOMAIN Resolvers' : Resolvers'[h] = Resolvers[h]
                  /\ UNCHANGED <<Commitments, Registrations, ledger>>

\* C14: deregister_sub_name succeeds only when the caller is the parent's
\* current owner (not the owner snapshotted in the SubRegistration) and the
\* SubRegistration exists; it fails with RegistrationNotFound when the sub
\* name is absent; on success it removes exactly that SubRegistration and the
\* resolver entry of subNameHash(parent, labelHash), and leaves the parent
\* Registration, sibling sub names and all other resolver entries unchanged.
C14_DeregisterSubName == [][C14_Step]_vars

\* The parent's current owner, who is not the owner snapshotted in the
\* surviving sibling, has just removed a sub name; the sibling and its
\* resolver entry are still there.
C14_Witness ==
    /\ op = "deregister_sub_name" /\ result = "Ok"
    /\ \E k \in DOMAIN SubNameRegistrations :
          /\ k[1] \in DOMAIN Registrations
          /\ SubNameRegistrations[k].owner # Registrations[k[1]].owner
          /\ SubNameRegistrations[k].hash \in DOMAIN Resolvers

\* C15: in every reachable state, every SubRegistration keyed (parent,
\* labelHash) has a Registration of parent, whatever the interleaving of
\* reveal, force_register, register_sub_name, deregister_sub_name and
\* deregister.
C15_SubNameHasParent ==
    \A k \in DOMAIN SubNameRegistrations : k[1] \in DOMAIN Registrations

\* A parent that had sub names has just been deregistered.
C15_Witness ==
    /\ op = "deregister" /\ result = "Ok"
    /\ Registrations = EmptyMap
    /\ SubNameRegistrations = EmptyMap
    /\ feePot > 0

(***************************************************************************)
(* Claims about the commitment deposit and the registration manager.       *)
(***************************************************************************)
C16_Step ==
    \A o \in SignedOrigins, w \in Accounts, n \in Names :
        LET h == commitment_hash_of(n, 0) IN
        commit(o, w, h) =>
            IF controllersOnly /\ o.who \notin ControllerAccounts
            THEN /\ result' = "NotControllerAccount"
                 /\ UNCHANGED <<stores, ledger>>
            ELSE h \notin DOMAIN Commitments =>
                 IF free[o.who] >= CommitmentDeposit
                 THEN /\ result' = "Ok"
                      /\ reserved' = [reserved EXCEPT
                                        ![o.who] = reserved[o.who] + CommitmentDeposit]
                      /\ free' = [free EXCEPT
                                    ![o.who] = free[o.who] - CommitmentDeposit]
                      /\ feePot' = feePot
                      /\ DOMAIN Commitments' = DOMAIN Commitments \cup {h}
                      /\ Commitments'[h] =
                            [who |-> w, when |-> now, deposit |-> CommitmentDeposit]
                      /\ \A g \in DOMAIN Commitments : Commitments'[g] = Commitments[g]
                 ELSE /\ result' \notin {"Ok", "NotControllerAccount"}
                      /\ UNCHANGED <<stores, ledger>>

\* C16: with controllers-only mode on and the sender outside
\* ControllerAccounts, commit fails with NotControllerAccount and records
\* nothing; otherwise, for a fresh hash, it reserves exactly CommitmentDeposit
\* from the sender and records the Commitment {beneficiary = who, createdAt =
\* now, deposit = CommitmentDeposit}; when the reserve fails the error is
\* returned and no Commitment is recorded.
C16_CommitGatingAndEscrow == [][C16_Step]_vars

\* In controllers-only mode alice, a controller, holds a commitment with its
\* deposit reserved, and bob has just been turned away.
C16_Witness ==
    /\ controllersOnly
    /\ op = "commit" /\ result = "NotControllerAccount"
    /\ Commitments # EmptyMap
    /\ reserved["alice"] = CommitmentDeposit
    /\ reserved["bob"] = 0

C17_Step ==
    op' = "force_register" =>
    \A o \in Origins, nh \in NameHashes, w \in Accounts, p \in Periods :
        force_register(o, nh, w, p) =>
            IF o.kind # "Root"
            THEN /\ result' # "Ok"
                 /\ UNCHANGED <<stores, ledger>>
            ELSE /\ result' = "Ok"
                 /\ Commitments' = Commitments
                 /\ UNCHANGED <<free, reserved, feePot>>
                 /\ nh \in DOMAIN Registrations'
                 /\ Registrations'[nh] =
                       [owner |-> w, registrant |-> w,
                        expiry |-> Min(now + p * BlocksPerRegistrationPeriod, MaxBlock),
                        deposit |-> 0]

C18_Race ==
    /\ \A s \in Secrets : commitment_hash_of(NameAbcde, s) \in DOMAIN Commitments
    /\ Commitments[commitment_hash_of(NameAbcde, 0)].who #
          Commitments[commitment_hash_of(NameAbcde, 1)].who
    /\ ~Live(name_hash_of(NameAbcde))

\* The reveal sequenced first takes the name for its beneficiary.
C18_First(o, s, p) ==
    LET nh == name_hash_of(NameAbcde)
        h == commitment_hash_of(NameAbcde, s)
    IN  /\ nh \in DOMAIN Registrations'
        /\ Registrations'[nh].owner = Commitments[h].who
        /\ Registrations'[nh].expiry > now
        /\ DOMAIN Commitments' = DOMAIN Commitments \ {h}

\* The reveal sequenced second, while the first lease runs: the other
\* commitment is gone and this one is stored.
C18_SecondStep ==
    \A o \in SignedOrigins, s \in Secrets, p \in Periods :
        LET nh == name_hash_of(NameAbcde)
            h == commitment_hash_of(NameAbcde, s)
        IN  (/\ DOMAIN Commitments = {h}
             /\ Live(nh)
             /\ reveal(o, NameAbcde, s, p)) =>
                /\ Registrations' = Registrations
                /\ UNCHANGED <<free, reserved, feePot>>
                /\ Commitments' = EmptyMap

C18_OriginalStep ==
    /\ \A o \in SignedOrigins, s \in Secrets, p \in Periods :
          (C18_Race /\ reveal(o, NameAbcde, s, p)) => C18_First(o, s, p)
    /\ C18_SecondStep

C18_AmendedStep ==
    /\ \A o \in SignedOrigins, s \in Secrets, p \in Periods :
          (/\ C18_Race
           /\ p > MinimumRegistrationPeriods
           /\ free[o.who] >= FeeOf(NameAbcde, p)
           /\ reveal(o, NameAbcde, s, p)) =>
                /\ result' = "Ok"
                /\ C18_First(o, s, p)
    /\ C18_SecondStep

ShortNames == {n \in FeeNames : Len(n) < 3}
ValidNames == {n \in FeeNames : Len(n) >= 3}

\* The fee quoted is the tier of the length plus the per-period fee,
\* saturating.
C19_Formula ==
    \A i \in 1..Len(quote) :
        quote[i].fee = FeeOf(quote[i].name, quote[i].periods)

\* For the periods of the quote, no longer valid name costs more.
C19_NonIncreasing ==
    \A i \in 1..Len(quote) :
        \A n \in ValidNames :
            (quote[i].name \in ValidNames /\ Len(n) >= Len(quote[i].name)) =>
                registration_fee(n, quote[i].periods) <= quote[i].fee

\* C19 as claimed: registrationFee(len, periods) = tier(len) + periods *
\* FeePerRegistrationPeriod with saturating arithmetic, tier being
\* TierThreeLetters, TierFourLetters, TierDefault for len 3, 4, >= 5 and the
\* maximum balance for len < 3; for fixed periods the fee is non-increasing in
\* len across 3, 4, >= 5; and the fee for len < 3 is strictly larger than the
\* fee of every valid tier.
C19_FeeScheduleAsClaimed ==
    /\ C19_Formula
    /\ C19_NonIncreasing
    /\ \A i \in 1..Len(quote) :
          \A n \in ShortNames :
              quote[i].name \in ValidNames =>
                  registration_fee(n, quote[i].periods) > quote[i].fee

\* C19 amended: the formula and the order of the tiers as claimed (the tier
\* constants being configured TierThreeLetters >= TierFourLetters >=
\* TierDefault); the fee for len < 3 is the maximum balance, at least the fee
\* of every valid tier, and strictly larger exactly when tier(len) + periods *
\* FeePerRegistrationPeriod of the valid tier stays below the maximum balance.
C19_FeeSchedule ==
    /\ C19_Formula
    /\ (TierThreeLetters >= TierFourLetters /\ TierFourLetters >= TierDefault) =>
          C19_NonIncreasing
    /\ \A i \in 1..Len(quote) :
          \A n \in ShortNames :
              LET q == quote[i]
                  short == registration_fee(n, q.periods)
              IN  /\ short = MaxBalance
                  /\ q.name \in ValidNames =>
                        /\ short >= q.fee
                        /\ (short > q.fee) <=>
                              (TierOf(Len(q.name)) + q.periods * FeePerRegistrationPeriod
                                 < MaxBalance)

\* The fee of a three-letter name has saturated: it equals the fee of a name
\* that is too short.
C19_Witness ==
    /\ op = "registration_fee"
    /\ Len(quote) = 1
    /\ Len(quote[1].name) = 3
    /\ quote[1].fee = MaxBalance

(***************************************************************************)
(* The commitment deposit, checked under SpecDeposit.                      *)
(***************************************************************************)
C20_Step ==
    /\ \A a \in Accounts : reserved'[a] >= reserved[a]
    /\ op' # "commit" => reserved' = reserved
    /\ \A o \in SignedOrigins, w \in Accounts :
          commit(o, w, commitment_hash_of(NameAbcde, 0)) =>
              reserved' =
                  IF result' = "Ok"
                  THEN [reserved EXCEPT ![o.who] = reserved[o.who] + CommitmentDeposit]
                  ELSE reserved
    /\ \A h \in DOMAIN Commitments :
          h \notin DOMAIN Commitments' => reserved' = reserved
    /\ reserved'["alice"] + reserved'["bob"] >=
          CommitmentDeposit * Cardinality(DOMAIN Commitments')

\* C20: the commitment deposit is never released.  reveal, whatever it
\* returns, and every other registry operation leave each account's reserved
\* balance unchanged or larger; the deposit stays reserved on the committer
\* after the commitment is removed; an account's reserved balance grows only
\* by a successful commit of its own, by exactly CommitmentDeposit, so that
\* it equals CommitmentDeposit times the number of its successful commits.
C20_DepositNeverReleased == [][C20_Step]_vars

\* alice has committed twice and both commitments have been consumed: her
\* two deposits are still reserved.
C20_Witness ==
    /\ op = "reveal"
    /\ Commitments = EmptyMap
    /\ reserved["alice"] = 2 * CommitmentDeposit

(***************************************************************************)
(* Registration over an existing record.                                   *)
(***************************************************************************)
C21_Step ==
    \A w \in Accounts, p \in Periods :
        LET nh == name_hash_of(NameAbc) IN
        (Live(nh) /\ force_register(Root, nh, w, p)) =>
            /\ result' = "Ok"
            /\ Registrations'[nh].owner = w
            /\ Registrations'[nh].registrant = w
            /\ Registrations'[nh].expiry =
                  Min(now + p * BlocksPerRegistrationPeriod, MaxBlock)
            /\ Resolvers' = Resolvers
            /\ SubNameRegistrations' = SubNameRegistrations

\* C21: force_register checks neither availability nor the minimum period.
\* From the privileged origin, on a name whose Registration is live (expiry >
\* now), it succeeds for any periods, 0 included, and replaces owner,
\* registrant and expiry with the new values, leaving the name's resolver
\* entry and its SubRegistrations in place.
C21_ForceRegisterOverwrites == [][C21_Step]_vars

\* The manager has just re-registered the name for zero periods to another
\* account: the resolver entry and the sub name of the previous owner are
\* still there.
C21_Witness ==
    LET nh == name_hash_of(NameAbc) IN
    /\ op = "force_register" /\ result = "Ok"
    /\ nh \in DOMAIN Registrations
    /\ Registrations[nh].expiry = now
    /\ nh \in DOMAIN Resolvers
    /\ \E k \in DOMAIN SubNameRegistrations :
          /\ k[1] = nh
          /\ SubNameRegistrations[k].owner # Registrations[nh].owner

C22_Step ==
    LET nh == name_hash_of(NameAbcde)
        h == commitment_hash_of(NameAbcde, 0)
    IN  /\ \A o \in SignedOrigins, p \in Periods :
              (/\ h \in DOMAIN Commitments
               /\ p > MinimumRegistrationPeriods
               /\ nh \in DOMAIN Registrations
               /\ Registrations[nh].expiry <= now
               /\ free[o.who] >= FeeOf(NameAbcde, p)
               /\ reveal(o, NameAbcde, 0, p)) =>
                    /\ result' = "Ok"
                    /\ Registrations'[nh].owner = Commitments[h].who
                    /\ Registrations'[nh].expiry > now
                    /\ Resolvers' = Resolvers
                    /\ SubNameRegistrations' = SubNameRegistrations
        /\ \A o \in SignedOrigins, l \in Labels :
              (/\ nh \in DOMAIN Registrations
               /\ Registrations[nh].owner = o.who
               /\ <<nh, <<HashTag>> \o l>> \in DOMAIN SubNameRegistrations
               /\ register_sub_name(o, nh, l)) =>
                    /\ result' = "SubNameAlreadyRegistered"
                    /\ SubNameRegistrations' = SubNameRegistrations

\* C22: re-registration over an expired record keeps stale children.  When a
\* reveal registers a name whose previous Registration is expired and was
\* never deregistered, only the Registrations entry is overwritten: the
\* name's resolver entry, every SubRegistration under it (still carrying the
\* previous owner) and their resolver entries stay as they were, and the sub
\* name labels stay occupied: register_sub_name of such a label by the new
\* owner fails with SubNameAlreadyRegistered.
C22_StaleChildren == [][C22_Step]_vars

\* The new owner, who took the lapsed name through reveal, has just been
\* refused a label that the previous owner's sub name still occupies; the
\* resolver entries of the name and of the sub name are still stored.
C22_Witness ==
    LET nh == name_hash_of(NameAbcde) IN
    /\ op = "register_sub_name" /\ result = "SubNameAlreadyRegistered"
    /\ feePot = 2 * FeeOf(NameAbcde, 1)
    /\ Live(nh)
    /\ nh \in DOMAIN Resolvers
    /\ \E k \in DOMAIN SubNameRegistrations :
          /\ k[1] = nh
          /\ SubNameRegistrations[k].owner # Registrations[nh].owner
          /\ SubNameRegistrations[k].hash \in DOMAIN Resolvers

(***************************************************************************)
(* The expiry boundary, checked under SpecBoundary.                        *)
(***************************************************************************)
\* What an operation of the owner that checks the expiry returns.
C23_OwnerResult(nh) == IF Live(nh) THEN "Ok" ELSE "RegistrationExpired"

C23_Step ==
    LET nh == name_hash_of(NameAbcde) IN
    nh \in DOMAIN Registrations =>
        LET owner == Signed(Registrations[nh].owner) IN
        /\ Live(nh) <=> ~(Registrations[nh].expiry <= now)
        /\ is_available(nh, now) <=> ~Live(nh)
        /\ \A t \in Accounts :
              transfer(owner, t, nh) => result' = C23_OwnerResult(nh)
        /\ set_address(owner, nh, "alice") => result' = C23_OwnerResult(nh)
        /\ \A lh \in LabelHashes :
              set_sub_name_address(owner, nh, lh, "alice") =>
                  result' = C23_OwnerResult(nh)
        /\ \A o \in SignedOrigins :
              deregister(o, nh) =>
                  result' = IF Live(nh) THEN "RegistrationNotExpired" ELSE "Ok"
        /\ (/\ ~Live(nh)
             /\ nh \in DOMAIN Registrations'
             /\ Registrations'[nh].expiry > now') =>
                  (op' \in {"renew", "reveal", "force_register"} /\ result' = "Ok")

\* C23: the expiry boundary is treated consistently.  For every stored
\* Registration and every clock value exactly one of the two holds: the lease
\* is live (expiry > now: transfer, set_address and set_sub_name_address by
\* the owner pass the expiry check, deregister fails with
\* RegistrationNotExpired, is_available is false) or it is lapsed (expiry <=
\* now, expiry = now included: those operations of the owner fail with
\* RegistrationExpired, deregister succeeds, is_available is true); and a
\* lapsed lease becomes live again only through renew, reveal or
\* force_register.
C23_ExpiryBoundary == [][C23_Step]_vars

\* At the very block the lease ends, after block 0, the owner has just been
\* refused with RegistrationExpired.
C23_Witness ==
    LET nh == name_hash_of(NameAbcde) IN
    /\ now > 0
    /\ nh \in DOMAIN Registrations
    /\ Registrations[nh].expiry = now
    /\ op \in {"transfer", "set_address", "set_sub_name_address"}
    /\ result = "RegistrationExpired"

====
